---- MODULE Spec2Model ----
(***************************************************************************)
(* Model of packages/zod-to-gql/src/index.ts: the compiler from Zod        *)
(* schemas to GraphQL SDL.  Schema nodes are instances identified by a     *)
(* number (reference identity); the registry `types` is keyed by them.     *)
(* Text is modelled by real strings, built with \o as the code builds      *)
(* them with template literals and join().                                 *)
(* The module also models retry() of packages/utils/src/promise.ts and the *)
(* message listener of the messaging package, each under a specification   *)
(* of its own (RetrySpec, ListenerSpec).                                   *)
(***************************************************************************)
EXTENDS Integers, Sequences, FiniteSets, TLC

VARIABLES
    mode,      \* "single": zodToGql(name, schema, options); "batch": zodToGql(schemas, options)
    schemas,   \* Object.entries(schemas): sequence of [name, schema]
    options,   \* the options object: scalars, types, strict, and what else the caller put
    pc,        \* position in the call
    types,     \* the working Map<ZodSchema, string>
    i,         \* index of the entry of `schemas` being processed
    j,         \* index of the field of the shape being processed
    lines,     \* the `lines` array of the running zodSchemaToGql call
    blocks,    \* the strings already produced by .map() in zodSchemasToGql
    result,    \* the returned string (meaningful when pc = "done")
    error,     \* the message of the thrown Error (meaningful when pc = "failed")
    retrying,  \* the retry() call: its options, its locals and what fn was seen to do
    listening  \* the listener call: the message, the handler, the hooks, the responses

vars == <<mode, schemas, options, pc, types, i, j, lines, blocks, result, error,
          retrying, listening>>

\* what a compile call leaves alone
components == <<retrying, listening>>

(***************************************************************************)
(* Bounds of the model.                                                    *)
(***************************************************************************)
MaxSchemas == 3      \* longest schemas record drawn by Init
MaxNode == 72        \* the claims quantify over the instances 1..MaxNode
MaxAttempts == 3     \* most calls of fn a retry() drawn by RetryInit can make

(***************************************************************************)
(* Schema instances.  A base instance is a record of what the code reads   *)
(* from a Zod schema: its class (kind), its checks, its shape, its enum    *)
(* options, its union options and the type of its literal value.           *)
(***************************************************************************)
Leaf(kind, checks) ==
    [kind |-> kind, checks |-> checks, shape |-> <<>>, values |-> <<>>,
     members |-> <<>>, valueType |-> "none", valueIsInteger |-> FALSE]

ZodLiteral(valueType, isInteger) ==
    [kind |-> "ZodLiteral", checks |-> {}, shape |-> <<>>, values |-> <<>>,
     members |-> <<>>, valueType |-> valueType, valueIsInteger |-> isInteger]

ZodEnum(values) ==
    [kind |-> "ZodEnum", checks |-> {}, shape |-> <<>>, values |-> values,
     members |-> <<>>, valueType |-> "none", valueIsInteger |-> FALSE]

ZodObject(shape) ==
    [kind |-> "ZodObject", checks |-> {}, shape |-> shape, values |-> <<>>,
     members |-> <<>>, valueType |-> "none", valueIsInteger |-> FALSE]

ZodUnion(members) ==
    [kind |-> "ZodUnion", checks |-> {}, shape |-> <<>>, values |-> <<>>,
     members |-> members, valueType |-> "none", valueIsInteger |-> FALSE]

F(key, schema) == [key |-> key, schema |-> schema]

\* Names of the base instances (their identity).
ZInt == 1
Product == 2
ZString == 3
ZUuid == 4
ZDatetime == 5
ZDate == 6
Location == 7
Status == 8
Pet == 9
MixedUnion == 10
StringUnion == 11
ZFloat == 12
ZBoolean == 13
LitString == 14
LitInt == 15
LitFloat == 16
LitBoolean == 17
ZAny == 18
Inventory == 19
Owner == 20
Article == 21
Mixed == 22
IntUnion == 23
FloatUnion == 24
BoolUnion == 25
Counts == 26
Flags == 27
Level == 28
NumBase == Level

\* The wrappers of an instance n are instances of their own, numbered after
\* the base instances: .optional(), .nullable(), .default(v), z.array(n).
WrapperKinds == <<"ZodOptional", "ZodNullable", "ZodDefault", "ZodArray">>
NumWrappers == Len(WrapperKinds)
Optional(n) == NumBase + NumWrappers * (n - 1) + 1
Nullable(n) == NumBase + NumWrappers * (n - 1) + 2
Default(n) == NumBase + NumWrappers * (n - 1) + 3
Array(n) == NumBase + NumWrappers * (n - 1) + 4

BaseNodes == <<
    Leaf("ZodNumber", {"int"}),                                    \* ZInt
    ZodObject(<<F("id", ZUuid), F("name", ZString)>>),             \* Product
    Leaf("ZodString", {}),                                         \* ZString
    Leaf("ZodString", {"uuid"}),                                   \* ZUuid
    Leaf("ZodString", {"datetime"}),                               \* ZDatetime
    Leaf("ZodString", {"date"}),                                   \* ZDate
    ZodObject(<<F("id", ZUuid), F("name", ZString)>>),             \* Location
    ZodEnum(<<"pending", "active", "Wine">>),                      \* Status
    ZodUnion(<<Product, Location>>),                               \* Pet
    ZodUnion(<<LitString, LitInt>>),                               \* MixedUnion
    ZodUnion(<<LitString, Status, ZString>>),                      \* StringUnion
    Leaf("ZodNumber", {}),                                         \* ZFloat
    Leaf("ZodBoolean", {}),                                        \* ZBoolean
    ZodLiteral("string", FALSE),                                   \* LitString
    ZodLiteral("number", TRUE),                                    \* LitInt
    ZodLiteral("number", FALSE),                                   \* LitFloat
    ZodLiteral("boolean", FALSE),                                  \* LitBoolean
    Leaf("ZodAny", {}),                                            \* ZAny
    ZodObject(<<F("id", ZUuid), F("product", Product),             \* Inventory
                F("location", Optional(Location)),
                F("history", Array(Optional(Location))),
                F("quantity", ZInt),
                F("parent", Optional(Inventory)),
                F("children", Array(Inventory))>>),
    ZodObject(<<F("name", ZString), F("pet", Pet),                 \* Owner
                F("kind", Status), F("level", Level),
                F("status", StringUnion),
                F("tags", Array(ZString)),
                F("since", Default(ZDatetime)),
                F("home", Nullable(Location)),
                F("friends", Array(Product))>>),
    ZodObject(<<F("scores", Array(Optional(ZInt))),                \* Article
                F("ratings", Optional(Array(ZInt))),
                F("views", Default(Optional(ZInt))),
                F("born", ZDate),
                F("draft", Optional(Nullable(ZBoolean))),
                F("grid", Array(Array(ZFloat)))>>),
    ZodObject(<<F("label", LitString), F("answer", LitInt),        \* Mixed
                F("pi", LitFloat), F("yes", LitBoolean),
                F("value", MixedUnion), F("after", ZInt)>>),
    ZodUnion(<<LitInt, ZInt>>),                                    \* IntUnion
    ZodUnion(<<LitInt, LitFloat>>),                                \* FloatUnion
    ZodUnion(<<LitBoolean, ZBoolean>>),                            \* BoolUnion
    ZodObject(<<F("level", IntUnion), F("ratio", FloatUnion)>>),   \* Counts
    ZodObject(<<F("flag", BoolUnion)>>),                           \* Flags
    ZodEnum(<<"low", "high">>)                                     \* Level
>>

kindOf(n) ==
    IF n <= NumBase THEN BaseNodes[n].kind
    ELSE WrapperKinds[((n - NumBase - 1) % NumWrappers) + 1]

\* schema.unwrap(), schema.removeDefault(), schema.element
innerOf(n) == ((n - NumBase - 1) \div NumWrappers) + 1

checksOf(n) == IF n <= NumBase THEN BaseNodes[n].checks ELSE {}
\* schema.shape: the field map, in insertion order
shapeOf(n) == IF n <= NumBase THEN BaseNodes[n].shape ELSE <<>>
\* the entries in the reverse of their insertion order
objectEntries_reversed(n) ==
    [k \in 1..Len(shapeOf(n)) |-> shapeOf(n)[Len(shapeOf(n)) + 1 - k]]

\* Object.entries(schema.shape)
objectEntries(n) == shapeOf(n)
valuesOf(n) == IF n <= NumBase THEN BaseNodes[n].values ELSE <<>>
membersOf(n) == IF n <= NumBase THEN BaseNodes[n].members ELSE <<>>

FieldNodes == 1..MaxNode

(***************************************************************************)
(* Strings and maps.                                                       *)
(***************************************************************************)
RECURSIVE join(_, _)
\* Array.prototype.join
join(strs, sep) ==
    IF Len(strs) = 0 THEN ""
    ELSE IF Len(strs) = 1 THEN strs[1]
    ELSE join(SubSeq(strs, 1, Len(strs) - 1), sep) \o sep \o strs[Len(strs)]

\* String.prototype.toUpperCase on the enum options of the model
toUpperCase(value) ==
    CASE value = "pending" -> "PENDING"
      [] value = "active" -> "ACTIVE"
      [] value = "Wine" -> "WINE"
      [] value = "low" -> "LOW"
      [] value = "high" -> "HIGH"
      [] OTHER -> value

EmptyMap == [k \in {} |-> ""]

\* { ...a, ...b } and new Map([...a, ...b]): the entries of b win
merge(a, b) ==
    [k \in (DOMAIN a) \cup (DOMAIN b) |-> IF k \in DOMAIN b THEN b[k] ELSE a[k]]

\* a set that leaves an existing entry alone
mapSet_keepExisting(m, key, value) == merge([k \in {key} |-> value], m)

\* Map.prototype.set
mapSet(m, key, value) == merge(m, [k \in {key} |-> value])

\* m[key] ?? fallback
orElse(m, key, fallback) == IF key \in DOMAIN m THEN m[key] ELSE fallback

Ok(s) == [err |-> FALSE, val |-> s]
Throw(message) == [err |-> TRUE, val |-> message]

DEFAULT_SCALARS ==
    [k \in {"uuid", "datetime", "date", "json"} |->
        CASE k = "uuid" -> "UUID"
          [] k = "datetime" -> "Datetime"
          [] k = "date" -> "Date"
          [] k = "json" -> "JSON"]

(***************************************************************************)
(* The field type resolver.                                                *)
(***************************************************************************)
unwrapSchema(schema) ==
    IF kindOf(schema) \in {"ZodOptional", "ZodNullable"}
    THEN [schema |-> innerOf(schema), isOptional |-> TRUE]
    ELSE IF kindOf(schema) = "ZodDefault"
    THEN [schema |-> innerOf(schema), isOptional |-> FALSE]
    ELSE [schema |-> schema, isOptional |-> FALSE]

\* the test without its ZodString and ZodEnum cases
allStringish_literalsOnly(opts) ==
    \A k \in 1..Len(opts) :
        kindOf(opts[k]) = "ZodLiteral" /\ BaseNodes[opts[k]].valueType = "string"

allStringish(opts) ==
    \A k \in 1..Len(opts) :
        \/ kindOf(opts[k]) \in {"ZodString", "ZodEnum"}
        \/ kindOf(opts[k]) = "ZodLiteral" /\ BaseNodes[opts[k]].valueType = "string"

UnionError ==
    "Union types can only contain strings, string literals, or enums. "
    \o "For object unions, register each type in the schemas record."

RECURSIVE resolveBaseType(_, _, _)
RECURSIVE zodTypeToGql(_, _, _)

\* the marker appended whatever the wrapper
renderType_alwaysRequired(baseType, isOptional) ==
    IF baseType.err THEN baseType ELSE Ok(baseType.val \o "!")

\* return isOptional ? baseType : `${baseType}!`
renderType(baseType, isOptional) ==
    IF baseType.err THEN baseType
    ELSE IF isOptional THEN baseType ELSE Ok(baseType.val \o "!")

zodTypeToGql(schema, scalars, tys) ==
    LET unwrapped == unwrapSchema(schema)
    IN  renderType(resolveBaseType(unwrapped.schema, scalars, tys), unwrapped.isOptional)

\* the literal's number taken for a Float whatever its value
literalType_noInteger(schema) ==
    CASE BaseNodes[schema].valueType = "string" -> "String"
      [] BaseNodes[schema].valueType = "number" -> "Float"
      [] BaseNodes[schema].valueType = "boolean" -> "Boolean"
      [] OTHER -> "String"

literalType(schema) ==
    CASE BaseNodes[schema].valueType = "string" -> "String"
      [] BaseNodes[schema].valueType = "number" ->
            IF BaseNodes[schema].valueIsInteger THEN "Int" ELSE "Float"
      [] BaseNodes[schema].valueType = "boolean" -> "Boolean"
      [] OTHER -> "String"

listType(itemType) ==
    IF itemType.err THEN itemType ELSE Ok("[" \o itemType.val \o "]")

stringType(schema, scalars) ==
    IF "uuid" \in checksOf(schema) THEN orElse(scalars, "uuid", "String")
    ELSE IF "datetime" \in checksOf(schema) THEN orElse(scalars, "datetime", "String")
    ELSE "String"

numberType(schema) == IF "int" \in checksOf(schema) THEN "Int" ELSE "Float"

unionType(schema) ==
    IF allStringish(membersOf(schema)) THEN Ok("String") ELSE Throw(UnionError)

\* the element resolved without its own marker
elementType_base(schema, scalars, tys) ==
    resolveBaseType(unwrapSchema(innerOf(schema)).schema, scalars, tys)

\* const itemType = zodTypeToGql(schema.element, scalars, types)
elementType(schema, scalars, tys) == zodTypeToGql(innerOf(schema), scalars, tys)

\* the fallback name fixed, whatever options.scalars.json says
objectType_fixed(scalars) == "JSON"

\* return scalars.json ?? 'JSON'
objectType(scalars) == orElse(scalars, "json", "JSON")

\* the enum printed under a name of its own
enumType_named(schema) == "Enum"

\* if (schema instanceof z.ZodEnum) return 'String'
enumType(schema) == "String"

structuralType(schema, scalars, tys) ==
    CASE kindOf(schema) = "ZodString" -> Ok(stringType(schema, scalars))
      [] kindOf(schema) = "ZodNumber" -> Ok(numberType(schema))
      [] kindOf(schema) = "ZodBoolean" -> Ok("Boolean")
      [] kindOf(schema) = "ZodEnum" -> Ok(enumType(schema))
      [] kindOf(schema) = "ZodArray" -> listType(elementType(schema, scalars, tys))
      [] kindOf(schema) = "ZodObject" -> Ok(objectType(scalars))
      [] kindOf(schema) = "ZodLiteral" -> Ok(literalType(schema))
      [] kindOf(schema) = "ZodUnion" -> unionType(schema)
      [] OTHER -> Ok("String")

RECURSIVE SameStructure(_, _)
\* structural (deep) equality of two instances, whatever their identity
SameStructure(a, b) ==
    \/ a = b
    \/ /\ kindOf(a) = kindOf(b)
       /\ IF a > NumBase \/ b > NumBase
          THEN a > NumBase /\ b > NumBase /\ SameStructure(innerOf(a), innerOf(b))
          ELSE /\ checksOf(a) = checksOf(b)
               /\ valuesOf(a) = valuesOf(b)
               /\ BaseNodes[a].valueType = BaseNodes[b].valueType
               /\ BaseNodes[a].valueIsInteger = BaseNodes[b].valueIsInteger
               /\ Len(shapeOf(a)) = Len(shapeOf(b))
               /\ \A k \in 1..Len(shapeOf(a)) :
                       /\ shapeOf(a)[k].key = shapeOf(b)[k].key
                       /\ SameStructure(shapeOf(a)[k].schema, shapeOf(b)[k].schema)
               /\ Len(membersOf(a)) = Len(membersOf(b))
               /\ \A k \in 1..Len(membersOf(a)) :
                       SameStructure(membersOf(a)[k], membersOf(b)[k])

\* the registry as a value-equality map: any structurally equal key matches
lookupType_byValue(schema, tys) ==
    LET hits == { m \in DOMAIN tys : SameStructure(m, schema) }
    IN  IF hits # {} THEN <<tys[CHOOSE m \in hits : TRUE]>> ELSE <<>>

\* types?.has(schema) ? <<types.get(schema)>> : <<>>: the key is the instance
lookupType(schema, tys) == IF schema \in DOMAIN tys THEN <<tys[schema]>> ELSE <<>>

resolveBaseType(schema, scalars, tys) ==
    LET hit == lookupType(schema, tys)
    IN  IF hit # <<>> THEN Ok(hit[1]) ELSE structuralType(schema, scalars, tys)

(***************************************************************************)
(* Strict-mode validation.                                                 *)
(***************************************************************************)
StrictError(fieldName, parentType) ==
    "Strict mode: Field \"" \o fieldName \o "\" on type \"" \o parentType
    \o "\" references an unregistered object schema. "
    \o "Add it to the schemas record or disable strict mode."

\* the validator looking at the field's schema without unwrapping it
validateFieldSchema_wrapperBlind(schema, tys, parentType, fieldName) ==
    IF kindOf(schema) = "ZodObject" /\ schema \notin DOMAIN tys
    THEN StrictError(fieldName, parentType)
    ELSE ""

\* the validator without its test of the registry
validateFieldSchema_noRegistry(schema, tys, parentType, fieldName) ==
    LET inner == unwrapSchema(schema).schema
    IN  IF kindOf(inner) = "ZodObject" THEN StrictError(fieldName, parentType) ELSE ""

\* the validator without its descent into list elements
validateFieldSchema_noLists(schema, tys, parentType, fieldName) ==
    LET inner == unwrapSchema(schema).schema
    IN  IF kindOf(inner) = "ZodObject" /\ inner \notin DOMAIN tys
        THEN StrictError(fieldName, parentType)
        ELSE ""

RECURSIVE validateFieldSchema(_, _, _, _)
\* "" when the call returns, the message when it throws
validateFieldSchema(schema, tys, parentType, fieldName) ==
    LET inner == unwrapSchema(schema).schema
    IN  IF kindOf(inner) = "ZodArray"
        THEN validateFieldSchema(innerOf(inner), tys, parentType, fieldName)
        ELSE IF kindOf(inner) = "ZodObject" /\ inner \notin DOMAIN tys
        THEN StrictError(fieldName, parentType)
        ELSE ""

RECURSIVE validateFields(_, _, _, _)
\* the inner loop of validateAllReferences, from field k on
validateFields(shape, k, tys, typeName) ==
    IF k > Len(shape) THEN ""
    ELSE LET thrown == validateFieldSchema(shape[k].schema, tys, typeName, shape[k].key)
         IN  IF thrown # "" THEN thrown ELSE validateFields(shape, k + 1, tys, typeName)

RECURSIVE validateFrom(_, _, _)
\* the outer loop of validateAllReferences, from entry k on
validateFrom(entries, k, tys) ==
    IF k > Len(entries) THEN ""
    ELSE LET thrown == IF kindOf(entries[k].schema) = "ZodObject"
                       THEN validateFields(objectEntries(entries[k].schema), 1, tys, entries[k].name)
                       ELSE ""
         IN  IF thrown # "" THEN thrown ELSE validateFrom(entries, k + 1, tys)

validateAllReferences(entries, tys) == validateFrom(entries, 1, tys)

(***************************************************************************)
(* The inputs drawn by Init.                                               *)
(***************************************************************************)
Catalogue == <<
    [name |-> "DomainProduct", schema |-> Product],
    [name |-> "Item", schema |-> Product],
    [name |-> "DomainLocation", schema |-> Location],
    [name |-> "DomainInventory", schema |-> Inventory],
    [name |-> "Status", schema |-> Status],
    [name |-> "Owner", schema |-> Owner],
    [name |-> "Article", schema |-> Article],
    [name |-> "Mixed", schema |-> Mixed],
    [name |-> "Pet", schema |-> Pet]
>>

NumEntries == Len(Catalogue)

\* schemas compiled on their own only, by zodToGql(name, schema, options)
Singles == {
    <<[name |-> "Counts", schema |-> Counts]>>,
    <<[name |-> "Flags", schema |-> Flags]>>,
    <<[name |-> "Name", schema |-> ZString]>>,
    <<[name |-> "Tags", schema |-> Array(ZString)]>>,
    <<[name |-> "Answer", schema |-> LitInt]>>,
    <<[name |-> "MaybeProduct", schema |-> Optional(Product)]>>
}

Records ==
    UNION { { [k \in 1..n |-> Catalogue[f[k]]] :
                f \in { g \in [1..n -> 1..NumEntries] :
                          \A a, b \in 1..n : a # b => Catalogue[g[a]].name # Catalogue[g[b]].name } }
            : n \in 0..MaxSchemas }

ScalarOptions == {
    EmptyMap,
    [k \in {"uuid", "datetime", "date", "json"} |->
        CASE k = "uuid" -> "ID" [] k = "datetime" -> "DateTime"
          [] k = "date" -> "Day" [] k = "json" -> "Json"]
}

TypesOptions == {
    EmptyMap,
    [n \in {Location} |-> "ExternalLocation"],
    [n \in {Product, Pet, Status, ZDatetime, Array(ZString)} |->
        CASE n = Product -> "SeededProduct" [] n = Pet -> "Animal"
          [] n = Status -> "StatusName" [] n = ZDatetime -> "Stamp"
          [] n = Array(ZString) -> "TagList"]
}

\* preserveEnumCase is a key the callers pass; ZodToGqlOptions does not
\* declare it and no line of the code reads it
OptionsSet ==
    { [scalars |-> s, types |-> t, strict |-> b, preserveEnumCase |-> FALSE] :
        s \in ScalarOptions, t \in TypesOptions, b \in BOOLEAN }
    \cup { [scalars |-> EmptyMap, types |-> EmptyMap, strict |-> FALSE,
            preserveEnumCase |-> TRUE] }

\* a compile call runs no retry() and no listener
NoRetry == [pc |-> "none"]
NoListener == [pc |-> "none"]

Init ==
    /\ retrying = NoRetry
    /\ listening = NoListener
    /\ mode \in {"single", "batch"}
    /\ schemas \in Records \cup Singles
    /\ mode = "single" => Len(schemas) = 1
    /\ schemas \in Singles => mode = "single"
    /\ options \in OptionsSet
    /\ pc = "call"
    /\ types = EmptyMap
    /\ i = 1
    /\ j = 1
    /\ lines = <<>>
    /\ blocks = <<>>
    /\ result = ""
    /\ error = ""

\* const scalars = { ...DEFAULT_SCALARS, ...options.scalars }
scalarsOf(opts) == merge(DEFAULT_SCALARS, opts.scalars)

(***************************************************************************)
(* zodToGql and zodSchemasToGql.                                           *)
(***************************************************************************)
\* the single-schema call sent through the record path
CallSingle_asBatch ==
    /\ pc = "call" /\ mode = "single"
    /\ types' = options.types
    /\ pc' = "register"
    /\ UNCHANGED <<mode, schemas, options, i, j, lines, blocks, result, error>>
    /\ UNCHANGED components

\* zodToGql(name, schema, options): straight to zodSchemaToGql with options.types
CallSingle ==
    /\ pc = "call" /\ mode = "single"
    /\ types' = options.types
    /\ pc' = "emit"
    /\ UNCHANGED <<mode, schemas, options, i, j, lines, blocks, result, error>>
    /\ UNCHANGED components

\* zodToGql(schemas, options): const types = new Map(options.types)
CallBatch ==
    /\ pc = "call" /\ mode = "batch"
    /\ types' = options.types
    /\ pc' = "register"
    /\ UNCHANGED <<mode, schemas, options, i, j, lines, blocks, result, error>>
    /\ UNCHANGED components

\* no automatic registration: the registry stays the caller's
registerSchema_skip(tys, entry) == tys

\* types.set(schema, name)
registerSchema(tys, entry) == mapSet(tys, entry.schema, entry.name)

\* the registration done on the caller's map itself, not on a copy of it
Register_aliased ==
    /\ pc = "register" /\ i <= Len(schemas)
    /\ types' = registerSchema(types, schemas[i])
    /\ options' = [options EXCEPT !.types = types']
    /\ i' = i + 1
    /\ UNCHANGED <<mode, schemas, pc, j, lines, blocks, result, error>>
    /\ UNCHANGED components

\* for (const [name, schema] of Object.entries(schemas)) types.set(schema, name)
Register ==
    /\ pc = "register" /\ i <= Len(schemas)
    /\ types' = registerSchema(types, schemas[i])
    /\ i' = i + 1
    /\ UNCHANGED <<mode, schemas, options, pc, j, lines, blocks, result, error>>
    /\ UNCHANGED components

\* the loop is over: if (options.strict) validate, else go on to the map
Registered ==
    /\ pc = "register" /\ i > Len(schemas)
    /\ pc' = IF options.strict THEN "validate" ELSE "emit"
    /\ i' = 1
    /\ UNCHANGED <<mode, schemas, options, types, j, lines, blocks, result, error>>
    /\ UNCHANGED components

Validate ==
    /\ pc = "validate"
    /\ LET thrown == validateAllReferences(schemas, types)
       IN  IF thrown # ""
           THEN pc' = "failed" /\ error' = thrown
           ELSE pc' = "emit" /\ error' = error
    /\ UNCHANGED <<mode, schemas, options, types, i, j, lines, blocks, result>>
    /\ UNCHANGED components

(***************************************************************************)
(* zodSchemaToGql, one step per pushed line.                               *)
(***************************************************************************)
TopLevelError(schema) ==
    "Top-level schema must be ZodObject or ZodEnum, got " \o kindOf(schema)

typeHeader(name) == "type " \o name \o " {"
enumHeader(name) == "enum " \o name \o " {"
fieldLine(key, gqlType) == "  " \o key \o ": " \o gqlType
enumLine(value) == "  " \o toUpperCase(value)

enumLines(values) == [k \in 1..Len(values) |-> enumLine(values[k])]

\* zodSchemaToGql is entered for schemas[i]
BeginDeclaration ==
    /\ pc = "emit" /\ i <= Len(schemas)
    /\ LET name == schemas[i].name
           schema == schemas[i].schema
       IN  CASE kindOf(schema) = "ZodObject" ->
                    /\ lines' = <<typeHeader(name)>>
                    /\ j' = 1
                    /\ pc' = "fields"
                    /\ error' = error
             [] kindOf(schema) = "ZodEnum" ->
                    /\ lines' = <<enumHeader(name)>> \o enumLines(valuesOf(schema)) \o <<"}">>
                    /\ j' = j
                    /\ pc' = "return"
                    /\ error' = error
             [] OTHER ->
                    /\ lines' = <<>>
                    /\ j' = j
                    /\ pc' = "failed"
                    /\ error' = TopLevelError(schema)
    /\ UNCHANGED <<mode, schemas, options, types, i, blocks, result>>
    /\ UNCHANGED components

\* the blocks separated by a single line break
joinBlocks_newline(bs) == join(bs, "\n")

joinBlocks(bs) == join(bs, "\n\n")

\* the loop with its error caught: what was produced so far is returned
EmitField_partial ==
    /\ pc = "fields" /\ j <= Len(objectEntries(schemas[i].schema))
    /\ LET field == objectEntries(schemas[i].schema)[j]
           gqlType == zodTypeToGql(field.schema, scalarsOf(options), types)
       IN  IF gqlType.err
           THEN /\ pc' = "done"
                /\ result' = joinBlocks(blocks)
                /\ UNCHANGED <<lines, j>>
           ELSE /\ lines' = Append(lines, fieldLine(field.key, gqlType.val))
                /\ j' = j + 1
                /\ UNCHANGED <<pc, result>>
    /\ UNCHANGED <<mode, schemas, options, types, i, blocks, error>>
    /\ UNCHANGED components

\* one iteration of the loop over Object.entries(shape)
EmitField ==
    /\ pc = "fields" /\ j <= Len(objectEntries(schemas[i].schema))
    /\ LET field == objectEntries(schemas[i].schema)[j]
           gqlType == zodTypeToGql(field.schema, scalarsOf(options), types)
       IN  IF gqlType.err
           THEN /\ pc' = "failed"
                /\ error' = gqlType.val
                /\ UNCHANGED <<lines, j>>
           ELSE /\ lines' = Append(lines, fieldLine(field.key, gqlType.val))
                /\ j' = j + 1
                /\ UNCHANGED <<pc, error>>
    /\ UNCHANGED <<mode, schemas, options, types, i, blocks, result>>
    /\ UNCHANGED components

\* lines.push('}')
CloseDeclaration ==
    /\ pc = "fields" /\ j > Len(objectEntries(schemas[i].schema))
    /\ lines' = Append(lines, "}")
    /\ pc' = "return"
    /\ UNCHANGED <<mode, schemas, options, types, i, j, blocks, result, error>>
    /\ UNCHANGED components

\* the declaration is entered again for the schema that was just returned
ReturnDeclaration_again ==
    /\ pc = "return"
    /\ blocks' = Append(blocks, join(lines, "\n"))
    /\ pc' = "emit"
    /\ UNCHANGED <<mode, schemas, options, types, i, j, lines, result, error>>
    /\ UNCHANGED components

\* return lines.join('\n'): the string becomes the next element of the map
ReturnDeclaration ==
    /\ pc = "return"
    /\ blocks' = Append(blocks, join(lines, "\n"))
    /\ i' = i + 1
    /\ pc' = "emit"
    /\ UNCHANGED <<mode, schemas, options, types, j, lines, result, error>>
    /\ UNCHANGED components

\* .join('\n\n') in batch mode; the one string itself in single mode
Finish ==
    /\ pc = "emit" /\ i > Len(schemas)
    /\ result' = IF mode = "batch" THEN joinBlocks(blocks) ELSE blocks[1]
    /\ pc' = "done"
    /\ UNCHANGED <<mode, schemas, options, types, i, j, lines, blocks, error>>
    /\ UNCHANGED components

\* zodSchemaToGql(name, schema, { scalars, types }) as a function of its
\* arguments: the returned string, or the thrown message
zodSchemaToGql(name, schema, scalars, tys) ==
    CASE kindOf(schema) = "ZodObject" ->
            LET shape == objectEntries(schema)
                gql == [k \in 1..Len(shape) |-> zodTypeToGql(shape[k].schema, scalars, tys)]
                thrown == { k \in 1..Len(shape) : gql[k].err }
            IN  IF thrown # {}
                THEN Throw(gql[CHOOSE k \in thrown : \A m \in thrown : k <= m].val)
                ELSE Ok(join(<<typeHeader(name)>>
                             \o [k \in 1..Len(shape) |-> fieldLine(shape[k].key, gql[k].val)]
                             \o <<"}">>, "\n"))
      [] kindOf(schema) = "ZodEnum" ->
            Ok(join(<<enumHeader(name)>> \o enumLines(valuesOf(schema)) \o <<"}">>, "\n"))
      [] OTHER -> Throw(TopLevelError(schema))

RECURSIVE registerFrom(_, _, _)
\* the registration loop of zodSchemasToGql, from entry k on
registerFrom(tys, entries, k) ==
    IF k > Len(entries) THEN tys
    ELSE registerFrom(registerSchema(tys, entries[k]), entries, k + 1)

\* the working registry of zodSchemasToGql(entries, opts)
workingTypes(entries, opts) == registerFrom(opts.types, entries, 1)

Next ==
    \/ CallSingle
    \/ CallBatch
    \/ Register
    \/ Registered
    \/ Validate
    \/ BeginDeclaration
    \/ EmitField
    \/ CloseDeclaration
    \/ ReturnDeclaration
    \/ Finish

Spec == Init /\ [][Next]_vars

(***************************************************************************)
(* What the claims read from a state.                                      *)
(***************************************************************************)
mergedScalars == scalarsOf(options)

\* the running zodSchemaToGql call is rendering an object and has pushed lines
InObject ==
    /\ pc \in {"fields", "return", "failed"}
    /\ lines # <<>>
    /\ i <= Len(schemas)
    /\ kindOf(schemas[i].schema) = "ZodObject"

\* the fields of the running declaration whose line has been pushed
Emitted ==
    IF InObject
    THEN 1..(IF pc = "return" THEN Len(lines) - 2 ELSE Len(lines) - 1)
    ELSE {}

FieldAt(k) == shapeOf(schemas[i].schema)[k]
LineAt(k) == lines[k + 1]

CatalogueIndex(entry) == CHOOSE c \in 1..NumEntries : Catalogue[c] = entry

\* the record lists its schemas in the order of the catalogue.  The registry
\* a record builds is the one built by its last entry for each instance,
\* taken in any order, so every registry that some record builds is built
\* by a record in this order.
InCatalogueOrder ==
    \A a, b \in 1..Len(schemas) :
        a < b => CatalogueIndex(schemas[a]) < CatalogueIndex(schemas[b])

\* the registry is complete and no declaration has been started: the
\* states in which the resolver is examined on every node, once for each
\* registry and option set
Assembled == pc = "emit" /\ i = 1 /\ InCatalogueOrder

Wrappers == {"ZodOptional", "ZodNullable", "ZodDefault"}
IsNullable(n) == kindOf(n) \in {"ZodOptional", "ZodNullable"}
Marker(n) == IF IsNullable(n) THEN "" ELSE "!"
\* the node under the field's wrapper, if it has one
Unwrapped(n) == IF kindOf(n) \in Wrappers THEN innerOf(n) ELSE n

(***************************************************************************)
(* C1: a field's type is its base type, followed by `!` exactly when the   *)
(* field node is not wrapped in Optional or Nullable: on every field line  *)
(* pushed, and for every node 1..MaxNode under every assembled registry.   *)
(***************************************************************************)
C1_RequiredMarker ==
    /\ \A k \in Emitted :
          LET n == FieldAt(k).schema
              base == resolveBaseType(Unwrapped(n), mergedScalars, types)
          IN  LineAt(k) = "  " \o FieldAt(k).key \o ": " \o base.val \o Marker(n)
    /\ Assembled =>
          \A n \in FieldNodes :
              LET base == resolveBaseType(Unwrapped(n), mergedScalars, types)
                  gqlType == zodTypeToGql(n, mergedScalars, types)
              IN  IF base.err THEN gqlType.err
                  ELSE gqlType = Ok(base.val \o Marker(n))

C1_Witness ==
    /\ \E k \in Emitted : IsNullable(FieldAt(k).schema)
    /\ \E k \in Emitted : kindOf(FieldAt(k).schema) \notin Wrappers

(***************************************************************************)
(* C2: a node that is a key of the registry resolves to its registered     *)
(* name whatever its kind, and a node that is not a key never resolves to  *)
(* the name registered for a structurally equal instance.                  *)
(***************************************************************************)
C2_RegistryByIdentity ==
    /\ \A k \in Emitted :
          LET n == FieldAt(k).schema
              inner == Unwrapped(n)
          IN  IF inner \in DOMAIN types
              THEN LineAt(k) = "  " \o FieldAt(k).key \o ": " \o types[inner] \o Marker(n)
              ELSE \A m \in DOMAIN types :
                      SameStructure(m, inner) =>
                          LineAt(k) # "  " \o FieldAt(k).key \o ": " \o types[m] \o Marker(n)
    /\ Assembled =>
          \A n \in FieldNodes :
              IF n \in DOMAIN types
              THEN resolveBaseType(n, mergedScalars, types) = Ok(types[n])
              ELSE \A m \in DOMAIN types :
                      SameStructure(m, n) =>
                          resolveBaseType(n, mergedScalars, types) # Ok(types[m])

\* Inventory: `product` printed with Product's name, `location` (an equal
\* shape, another instance) left unregistered; and a registered list,
\* enum, scalar and union exist
C2_Witness ==
    /\ {2, 3} \subseteq Emitted
    /\ schemas[i].schema = Inventory
    /\ Product \in DOMAIN types
    /\ Location \notin DOMAIN types
    /\ {Array(ZString), Status, ZDatetime, Pet} \subseteq DOMAIN types

(***************************************************************************)
(* C3 (as stated): a field that refers to another schema of the batch is   *)
(* printed with that schema's registered name, and permuting the input     *)
(* changes the text of no block.                                           *)
(***************************************************************************)
Orders(n) ==
    { p \in [1..n -> 1..n] : \A a, b \in 1..n : a # b => p[a] # p[b] }

Permuted(p) == [k \in 1..Len(schemas) |-> schemas[p[k]]]

\* every block is the text its schema gets under every permutation of the input
SameTextUnderPermutation ==
    \A p \in Orders(Len(schemas)) :
        \A k \in 1..Len(schemas) :
            zodSchemaToGql(schemas[k].name, schemas[k].schema, mergedScalars,
                           workingTypes(Permuted(p), options)) = Ok(blocks[k])

C3_PermutationKeepsText ==
    pc = "done" /\ mode = "batch" => SameTextUnderPermutation

(***************************************************************************)
(* C3 (amended): in a batch, a field that refers to another schema of the  *)
(* batch is printed with the name of the last entry that lists this        *)
(* instance, wherever that entry stands in the input; and when no          *)
(* instance is listed under two names, permuting the input changes the     *)
(* text of no block.                                                       *)
(***************************************************************************)
EntriesOf(n) == { e \in 1..Len(schemas) : schemas[e].schema = n }
LastName(n) ==
    schemas[CHOOSE e \in EntriesOf(n) : \A d \in EntriesOf(n) : d <= e].name

OneNamePerInstance ==
    \A a, b \in 1..Len(schemas) : schemas[a].schema = schemas[b].schema => a = b

C3_CrossReference ==
    /\ mode = "batch" =>
          \A k \in Emitted :
              LET n == FieldAt(k).schema
              IN  EntriesOf(Unwrapped(n)) # {} =>
                      LineAt(k) = "  " \o FieldAt(k).key \o ": "
                                  \o LastName(Unwrapped(n)) \o Marker(n)
    /\ pc = "done" /\ mode = "batch" /\ OneNamePerInstance => SameTextUnderPermutation

\* a finished batch in which an earlier schema refers to a later one
C3_Witness ==
    /\ pc = "done" /\ mode = "batch" /\ OneNamePerInstance
    /\ \E a, b \in 1..Len(schemas) :
          /\ a < b
          /\ \E f \in 1..Len(shapeOf(schemas[a].schema)) :
                Unwrapped(shapeOf(schemas[a].schema)[f].schema) = schemas[b].schema

(***************************************************************************)
(* C4: a strict batch in which some field of a top-level object leads,     *)
(* through its wrapper and through list elements, to an object that is not *)
(* in the working registry never starts a declaration: it can only fail,   *)
(* and the error names the first such field and its parent type.           *)
(***************************************************************************)
RECURSIVE Target(_)
\* the node a field leads to: under its wrapper, then under list elements
Target(n) ==
    IF kindOf(Unwrapped(n)) = "ZodArray"
    THEN Target(innerOf(Unwrapped(n)))
    ELSE Unwrapped(n)

Offends(n, tys) == kindOf(Target(n)) = "ZodObject" /\ Target(n) \notin DOMAIN tys

\* <<entry, field>> of every field that refers to an unregistered object
Offenders ==
    UNION { { <<e, f>> : f \in { g \in 1..Len(shapeOf(schemas[e].schema)) :
                                    Offends(shapeOf(schemas[e].schema)[g].schema,
                                            workingTypes(schemas, options)) } }
            : e \in 1..Len(schemas) }

FirstOffender ==
    CHOOSE o \in Offenders :
        \A q \in Offenders : o[1] < q[1] \/ (o[1] = q[1] /\ o[2] <= q[2])

C4_StrictRejects ==
    mode = "batch" /\ options.strict /\ Offenders # {} =>
        /\ pc \in {"call", "register", "validate", "failed"}
        /\ blocks = <<>>
        /\ lines = <<>>
        /\ pc = "failed" =>
              error = "Strict mode: Field \""
                      \o shapeOf(schemas[FirstOffender[1]].schema)[FirstOffender[2]].key
                      \o "\" on type \"" \o schemas[FirstOffender[1]].name
                      \o "\" references an unregistered object schema. "
                      \o "Add it to the schemas record or disable strict mode."

\* the call has failed on a field whose object sits inside a list
C4_Witness ==
    /\ pc = "failed" /\ mode = "batch" /\ options.strict /\ Offenders # {}
    /\ kindOf(Unwrapped(shapeOf(schemas[FirstOffender[1]].schema)[FirstOffender[2]].schema))
          = "ZodArray"

(***************************************************************************)
(* C5: without strict mode (a batch without `strict`, or a single-schema   *)
(* call) no call fails on an unregistered object field: such a field is    *)
(* printed with the configured JSON scalar name (options.scalars.json,     *)
(* else JSON) and its marker, and the only errors are the union and the    *)
(* top-level ones.                                                         *)
(***************************************************************************)
NonStrict == ~(mode = "batch" /\ options.strict)

JsonName ==
    IF "json" \in DOMAIN options.scalars THEN options.scalars["json"] ELSE "JSON"

UnregisteredObject(n) ==
    kindOf(Unwrapped(n)) = "ZodObject" /\ Unwrapped(n) \notin DOMAIN types

C5_JsonFallback ==
    NonStrict =>
        /\ \A k \in Emitted :
              UnregisteredObject(FieldAt(k).schema) =>
                  LineAt(k) = "  " \o FieldAt(k).key \o ": " \o JsonName
                              \o Marker(FieldAt(k).schema)
        /\ pc = "failed" /\ InObject => ~UnregisteredObject(FieldAt(j).schema)
        /\ pc = "failed" =>
              \/ error = UnionError
              \/ error = "Top-level schema must be ZodObject or ZodEnum, got "
                         \o kindOf(schemas[i].schema)
        /\ Assembled =>
              \A n \in FieldNodes :
                  UnregisteredObject(n) =>
                      zodTypeToGql(n, mergedScalars, types) = Ok(JsonName \o Marker(n))

\* an unregistered object field printed under an overridden JSON name
C5_Witness ==
    /\ NonStrict
    /\ "json" \in DOMAIN options.scalars
    /\ \E k \in Emitted :
          UnregisteredObject(FieldAt(k).schema) /\ IsNullable(FieldAt(k).schema)
    /\ \E k \in Emitted :
          UnregisteredObject(FieldAt(k).schema) /\ ~IsNullable(FieldAt(k).schema)

(***************************************************************************)
(* C6: a list that is not itself a key of the registry resolves to `[` +   *)
(* the field type of its element + `]`, followed by the list's own marker: *)
(* the element keeps its marker under any wrapper of the list, and the     *)
(* list keeps its marker whatever the element is.                          *)
(***************************************************************************)
C6_ListNullability ==
    /\ \A k \in Emitted :
          LET n == FieldAt(k).schema
              list == Unwrapped(n)
          IN  kindOf(list) = "ZodArray" /\ list \notin DOMAIN types =>
                  LineAt(k) = "  " \o FieldAt(k).key \o ": ["
                              \o zodTypeToGql(innerOf(list), mergedScalars, types).val
                              \o "]" \o Marker(n)
    /\ Assembled =>
          \A e \in FieldNodes :
              LET item == zodTypeToGql(e, mergedScalars, types)
              IN  Array(e) \notin DOMAIN types /\ ~item.err =>
                      /\ zodTypeToGql(Array(e), mergedScalars, types)
                            = Ok("[" \o item.val \o "]!")
                      /\ zodTypeToGql(Default(Array(e)), mergedScalars, types)
                            = Ok("[" \o item.val \o "]!")
                      /\ zodTypeToGql(Optional(Array(e)), mergedScalars, types)
                            = Ok("[" \o item.val \o "]")
    /\ Assembled /\ ZInt \notin DOMAIN types =>
          /\ zodTypeToGql(Array(Optional(ZInt)), mergedScalars, types) = Ok("[Int]!")
          /\ zodTypeToGql(Optional(Array(ZInt)), mergedScalars, types) = Ok("[Int!]")

\* Article: `scores` (a list of optional Int) and `ratings` (an optional
\* list of Int) have both been printed
C6_Witness ==
    /\ {1, 2} \subseteq Emitted
    /\ schemas[i].schema = Article
    /\ lines[2] = "  scores: [Int]!"
    /\ lines[3] = "  ratings: [Int!]"

(***************************************************************************)
(* C7 (as stated): every field whose node, under its wrapper, is a string, *)
(* number or boolean scalar that is not a key of the registry is printed   *)
(* with the options.scalars override of its subtype key, else with UUID,   *)
(* Datetime, Date, String, Int, Float or Boolean.                          *)
(***************************************************************************)
ScalarNodes ==
    { n \in 1..NumBase : kindOf(n) \in {"ZodString", "ZodNumber", "ZodBoolean"} }

Override(key, default) ==
    IF key \in DOMAIN options.scalars THEN options.scalars[key] ELSE default

DocumentedScalar(n) ==
    IF kindOf(n) = "ZodString"
    THEN IF "uuid" \in checksOf(n) THEN Override("uuid", "UUID")
         ELSE IF "datetime" \in checksOf(n) THEN Override("datetime", "Datetime")
         ELSE IF "date" \in checksOf(n) THEN Override("date", "Date")
         ELSE "String"
    ELSE IF kindOf(n) = "ZodNumber"
    THEN IF "int" \in checksOf(n) THEN "Int" ELSE "Float"
    ELSE "Boolean"

ScalarLinesAsDocumented(nodes) ==
    \A k \in Emitted :
        LET n == FieldAt(k).schema
        IN  Unwrapped(n) \in nodes \ DOMAIN types =>
                LineAt(k) = "  " \o FieldAt(k).key \o ": "
                            \o DocumentedScalar(Unwrapped(n)) \o Marker(n)

C7_ScalarDefaults == ScalarLinesAsDocumented(ScalarNodes)

\* the date strings left out, the code agrees with the table: on every
\* field line, and for every scalar instance under every assembled registry
C7_AllButDate ==
    /\ ScalarLinesAsDocumented(ScalarNodes \ {ZDate})
    /\ Assembled =>
          \A n \in ScalarNodes \ (DOMAIN types \cup {ZDate}) :
              resolveBaseType(n, mergedScalars, types) = Ok(DocumentedScalar(n))

(***************************************************************************)
(* C8 (as stated): every field Default(N) is printed with the string N     *)
(* resolves to as a field, in its non-null form, whatever the node N.      *)
(***************************************************************************)
\* what node n resolves to as a field, with the marker if it lacks it
NonNullForm(n) ==
    LET direct == zodTypeToGql(n, mergedScalars, types)
    IN  IF ~direct.err /\ IsNullable(n) THEN Ok(direct.val \o "!") ELSE direct

DefaultLinesTransparentOver(nodes) ==
    \A k \in Emitted :
        LET n == FieldAt(k).schema
        IN  kindOf(n) = "ZodDefault" /\ innerOf(n) \in nodes =>
                LineAt(k) = "  " \o FieldAt(k).key \o ": " \o NonNullForm(innerOf(n)).val

C8_DefaultTransparent ==
    DefaultLinesTransparentOver({ FieldAt(k).schema : k \in Emitted }
                                \cup { innerOf(FieldAt(k).schema) : k \in Emitted })

\* over the nodes N that are not wrappers themselves it holds: on every
\* field line, and for every such instance under every assembled registry
C8_DefaultOverUnwrappedNode ==
    /\ DefaultLinesTransparentOver({ innerOf(FieldAt(k).schema) : k \in Emitted }
                                   \ { n \in FieldNodes : kindOf(n) \in Wrappers })
    /\ Assembled =>
          \A n \in { m \in FieldNodes : kindOf(m) \notin Wrappers } :
              zodTypeToGql(Default(n), mergedScalars, types) = NonNullForm(n)

(***************************************************************************)
(* C9: the string a batch returns is its declaration blocks, one per named *)
(* schema and in the order of the input, with one blank line between two   *)
(* blocks and nothing before the first or after the last.                  *)
(***************************************************************************)
RECURSIVE Document(_)
Document(bs) ==
    IF bs = <<>> THEN ""
    ELSE IF Len(bs) = 1 THEN Head(bs)
    ELSE Head(bs) \o "\n\n" \o Document(Tail(bs))

C9_BatchDocument ==
    pc = "done" /\ mode = "batch" =>
        /\ Len(blocks) = Len(schemas)
        /\ \A k \in 1..Len(schemas) :
              zodSchemaToGql(schemas[k].name, schemas[k].schema, mergedScalars, types)
                  = Ok(blocks[k])
        /\ result = Document(blocks)

C9_Witness ==
    /\ pc = "done" /\ mode = "batch"
    /\ Len(schemas) >= 3
    /\ \E k \in 1..Len(schemas) : kindOf(schemas[k].schema) = "ZodEnum"

(***************************************************************************)
(* C10: the declaration of an object schema is `type <name> {`, then one   *)
(* line per field of the shape, in insertion order, each two spaces, the   *)
(* field name, `: ` and the field's resolved type, then `}`; the block is  *)
(* these lines, one line break between two of them.                        *)
(***************************************************************************)
RECURSIVE Text(_)
Text(ls) ==
    IF ls = <<>> THEN ""
    ELSE IF Len(ls) = 1 THEN Head(ls)
    ELSE Head(ls) \o "\n" \o Text(Tail(ls))

C10_ObjectDeclaration ==
    /\ pc = "return" /\ kindOf(schemas[i].schema) = "ZodObject" =>
          LET shape == shapeOf(schemas[i].schema)
          IN  /\ Len(lines) = Len(shape) + 2
              /\ lines[1] = "type " \o schemas[i].name \o " {"
              /\ lines[Len(lines)] = "}"
              /\ \A k \in 1..Len(shape) :
                    lines[k + 1] = "  " \o shape[k].key \o ": "
                        \o zodTypeToGql(shape[k].schema, mergedScalars, types).val
    /\ pc = "emit" /\ i > 1 => blocks[i - 1] = Text(lines)

\* a declaration of five fields or more is complete
C10_Witness ==
    /\ pc = "return"
    /\ kindOf(schemas[i].schema) = "ZodObject"
    /\ Len(shapeOf(schemas[i].schema)) >= 5

(***************************************************************************)
(* C11: once the batch has built its registry, every instance listed in    *)
(* the batch is mapped to its batch name, also when options.types gave it  *)
(* another name; every options.types entry for an instance the batch does  *)
(* not list is kept, and a field referring to such an instance is printed  *)
(* with the caller's name.                                                 *)
(***************************************************************************)
RegistryBuilt == mode = "batch" /\ pc \notin {"call", "register"}

Seeded == DOMAIN options.types

C11_SeedAndBatch ==
    /\ RegistryBuilt =>
          /\ \A e \in 1..Len(schemas) :
                /\ schemas[e].schema \in DOMAIN types
                /\ types[schemas[e].schema] = LastName(schemas[e].schema)
          /\ \A n \in Seeded :
                EntriesOf(n) = {} => n \in DOMAIN types /\ types[n] = options.types[n]
    /\ mode = "batch" =>
          \A k \in Emitted :
              LET n == FieldAt(k).schema
              IN  Unwrapped(n) \in Seeded /\ EntriesOf(Unwrapped(n)) = {} =>
                      LineAt(k) = "  " \o FieldAt(k).key \o ": "
                                  \o options.types[Unwrapped(n)] \o Marker(n)

\* a batch that renames a seeded instance and prints a field with a name
\* that only the caller's map holds
C11_Witness ==
    /\ mode = "batch"
    /\ \E k \in Emitted :
          /\ Unwrapped(FieldAt(k).schema) \in Seeded
          /\ EntriesOf(Unwrapped(FieldAt(k).schema)) = {}
    /\ \E e \in 1..Len(schemas) :
          /\ schemas[e].schema \in Seeded
          /\ types[schemas[e].schema] # options.types[schemas[e].schema]

(***************************************************************************)
(* What the claims about unions read.                                      *)
(***************************************************************************)
StringLike(m) ==
    \/ kindOf(m) \in {"ZodString", "ZodEnum"}
    \/ kindOf(m) = "ZodLiteral" /\ BaseNodes[m].valueType = "string"

NumberLike(m) ==
    \/ kindOf(m) = "ZodNumber"
    \/ kindOf(m) = "ZodLiteral" /\ BaseNodes[m].valueType = "number"

IntegerValued(m) ==
    \/ kindOf(m) = "ZodNumber" /\ "int" \in checksOf(m)
    \/ kindOf(m) = "ZodLiteral" /\ BaseNodes[m].valueIsInteger

BooleanLike(m) ==
    \/ kindOf(m) = "ZodBoolean"
    \/ kindOf(m) = "ZodLiteral" /\ BaseNodes[m].valueType = "boolean"

Category(m) ==
    CASE StringLike(m) -> "string"
      [] NumberLike(m) -> "number"
      [] BooleanLike(m) -> "boolean"
      [] kindOf(m) = "ZodObject" -> "object"
      [] OTHER -> "other"

Members(n) == { membersOf(n)[k] : k \in 1..Len(membersOf(n)) }

\* the unions whose members are all of category c
UnionsOf(c) ==
    { n \in 1..NumBase : kindOf(n) = "ZodUnion" /\ \A m \in Members(n) : Category(m) = c }

MixedUnions ==
    { n \in 1..NumBase :
        kindOf(n) = "ZodUnion" /\ \E a, b \in Members(n) : Category(a) # Category(b) }

\* the running zodSchemaToGql call threw while resolving field j
FailedAtField == pc = "failed" /\ InObject

\* the field whose type is being resolved, or was when the call threw
FailingField == FieldAt(j).schema

\* String.prototype.includes, as the tests' regular expressions use it
Contains(text, part) ==
    \E k \in 1..(Len(text) - Len(part) + 1) : SubSeq(text, k, k + Len(part) - 1) = part

(***************************************************************************)
(* C12: in a batch, a top-level union whose members are all objects listed *)
(* in the batch is declared as `union <name> = A | B`, the members' names  *)
(* in member order, and a field of the batch whose type is this union      *)
(* instance is printed with the union's name.                              *)
(***************************************************************************)
DeclaredObjectUnion(n) ==
    n \in UnionsOf("object") /\ \A m \in Members(n) : EntriesOf(m) # {}

unionDeclaration(name, n) ==
    "union " \o name \o " = "
    \o join([k \in 1..Len(membersOf(n)) |-> LastName(membersOf(n)[k])], " | ")

C12_TopLevelUnion ==
    mode = "batch" =>
        /\ \A e \in 1..Len(schemas) :
              DeclaredObjectUnion(schemas[e].schema) =>
                  /\ ~(pc = "failed" /\ i = e /\ error = TopLevelError(schemas[e].schema))
                  /\ e <= Len(blocks) =>
                        blocks[e] = unionDeclaration(schemas[e].name, schemas[e].schema)
        /\ \A k \in Emitted :
              LET n == FieldAt(k).schema
              IN  DeclaredObjectUnion(Unwrapped(n)) /\ EntriesOf(Unwrapped(n)) # {} =>
                      LineAt(k) = "  " \o FieldAt(k).key \o ": "
                                  \o LastName(Unwrapped(n)) \o Marker(n)

(***************************************************************************)
(* C13: a field whose type is a union of string scalars, enums and string  *)
(* literals, the union not being a key of the registry, is printed as      *)
(* String and never makes the call fail.                                   *)
(***************************************************************************)
C13_StringUnion ==
    /\ \A k \in Emitted :
          LET n == FieldAt(k).schema
          IN  Unwrapped(n) \in UnionsOf("string") \ DOMAIN types =>
                  LineAt(k) = "  " \o FieldAt(k).key \o ": String" \o Marker(n)
    /\ FailedAtField => Unwrapped(FailingField) \notin UnionsOf("string") \ DOMAIN types
    /\ Assembled =>
          \A n \in UnionsOf("string") \ DOMAIN types :
              resolveBaseType(n, mergedScalars, types) = Ok("String")

C13_Witness ==
    \E k \in Emitted :
        /\ Unwrapped(FieldAt(k).schema) \in UnionsOf("string") \ DOMAIN types
        /\ \E a, b \in Members(Unwrapped(FieldAt(k).schema)) : kindOf(a) # kindOf(b)

(***************************************************************************)
(* C14: a field whose type is a union of numeric scalars and numeric       *)
(* literals is printed as Int when every member is integer-valued and as   *)
(* Float otherwise, and never makes the call fail.                         *)
(***************************************************************************)
NumberUnionType(n) == IF \A m \in Members(n) : IntegerValued(m) THEN "Int" ELSE "Float"

C14_NumberUnion ==
    /\ \A k \in Emitted :
          LET n == FieldAt(k).schema
          IN  Unwrapped(n) \in UnionsOf("number") \ DOMAIN types =>
                  LineAt(k) = "  " \o FieldAt(k).key \o ": "
                              \o NumberUnionType(Unwrapped(n)) \o Marker(n)
    /\ FailedAtField => Unwrapped(FailingField) \notin UnionsOf("number") \ DOMAIN types

(***************************************************************************)
(* C15: a field whose type is a union of boolean scalars and boolean       *)
(* literals is printed as Boolean and never makes the call fail.           *)
(***************************************************************************)
C15_BooleanUnion ==
    /\ \A k \in Emitted :
          LET n == FieldAt(k).schema
          IN  Unwrapped(n) \in UnionsOf("boolean") \ DOMAIN types =>
                  LineAt(k) = "  " \o FieldAt(k).key \o ": Boolean" \o Marker(n)
    /\ FailedAtField => Unwrapped(FailingField) \notin UnionsOf("boolean") \ DOMAIN types

(***************************************************************************)
(* C16: a field whose type is a union with members of more than one        *)
(* category is never printed: the call fails, and the error says that the  *)
(* union contains mixed types.                                             *)
(***************************************************************************)
C16_MixedUnionMessage ==
    /\ \A k \in Emitted : Unwrapped(FieldAt(k).schema) \notin MixedUnions \ DOMAIN types
    /\ FailedAtField /\ Unwrapped(FailingField) \in MixedUnions \ DOMAIN types =>
          Contains(error, "Union contains mixed types")

\* what the code does there: the call fails, with the one message the
\* union branch has
C16_MixedUnionFails ==
    /\ \A k \in Emitted : Unwrapped(FieldAt(k).schema) \notin MixedUnions \ DOMAIN types
    /\ FailedAtField /\ Unwrapped(FailingField) \in MixedUnions \ DOMAIN types =>
          error = UnionError
    /\ Assembled =>
          \A n \in MixedUnions \ DOMAIN types :
              resolveBaseType(n, mergedScalars, types) = Throw(UnionError)

(***************************************************************************)
(* C17: a field whose type is a union of objects, the union not being a    *)
(* key of the registry, is never printed, as JSON, String or anything      *)
(* else: the call fails, and the error says that the object union must be  *)
(* registered.                                                             *)
(***************************************************************************)
C17_ObjectUnionMessage ==
    /\ \A k \in Emitted : Unwrapped(FieldAt(k).schema) \notin UnionsOf("object") \ DOMAIN types
    /\ FailedAtField /\ Unwrapped(FailingField) \in UnionsOf("object") \ DOMAIN types =>
          Contains(error, "Object union used as a field must be registered")

\* what the code does there: the call fails, with the one message the
\* union branch has
C17_ObjectUnionFails ==
    /\ \A k \in Emitted : Unwrapped(FieldAt(k).schema) \notin UnionsOf("object") \ DOMAIN types
    /\ FailedAtField /\ Unwrapped(FailingField) \in UnionsOf("object") \ DOMAIN types =>
          error = UnionError
    /\ Assembled =>
          \A n \in UnionsOf("object") \ DOMAIN types :
              resolveBaseType(n, mergedScalars, types) = Throw(UnionError)

(***************************************************************************)
(* C18: a top-level enum is declared as `enum <name> {`, one line per      *)
(* value in declared order, then `}`; the values are upper-cased unless    *)
(* the caller set preserveEnumCase, and are then printed as they are.      *)
(***************************************************************************)
EnumReturned ==
    pc = "return" /\ kindOf(schemas[i].schema) = "ZodEnum"

enumBlock(name, values, preserve) ==
    <<"enum " \o name \o " {">>
    \o [k \in 1..Len(values) |->
            "  " \o (IF preserve THEN values[k] ELSE toUpperCase(values[k]))]
    \o <<"}">>

C18_EnumCase ==
    EnumReturned =>
        lines = enumBlock(schemas[i].name, valuesOf(schemas[i].schema),
                          options.preserveEnumCase)

\* what the code does: the values upper-cased, whatever the caller set
C18_EnumUpperCased ==
    EnumReturned =>
        lines = enumBlock(schemas[i].name, valuesOf(schemas[i].schema), FALSE)

(***************************************************************************)
(* C19 (as stated): a field whose type is an enum that the caller did not  *)
(* name in options.types is printed as String, in a single and in a batch  *)
(* compile, also when the batch declares the same enum instance.           *)
(***************************************************************************)
C19_EnumFieldIsString ==
    \A k \in Emitted :
        LET n == FieldAt(k).schema
        IN  kindOf(Unwrapped(n)) = "ZodEnum" /\ Unwrapped(n) \notin Seeded =>
                LineAt(k) = "  " \o FieldAt(k).key \o ": String" \o Marker(n)

(***************************************************************************)
(* C19 (amended): a field whose type is an enum is printed as String,      *)
(* unless the enum instance is a key of the registry, as it is when        *)
(* options.types names it or when the batch declares it: the field is      *)
(* then printed with the registered name.                                  *)
(***************************************************************************)
EnumNodes == { n \in 1..NumBase : kindOf(n) = "ZodEnum" }

EnumFieldType(n) == IF n \in DOMAIN types THEN types[n] ELSE "String"

C19_EnumFieldUnlessRegistered ==
    /\ \A k \in Emitted :
          LET n == FieldAt(k).schema
          IN  Unwrapped(n) \in EnumNodes =>
                  /\ LineAt(k) = "  " \o FieldAt(k).key \o ": "
                                 \o EnumFieldType(Unwrapped(n)) \o Marker(n)
                  /\ mode = "batch" /\ EntriesOf(Unwrapped(n)) # {} =>
                        EnumFieldType(Unwrapped(n)) = LastName(Unwrapped(n))
                  /\ mode = "single" /\ Unwrapped(n) \notin Seeded =>
                        EnumFieldType(Unwrapped(n)) = "String"
    /\ FailedAtField => Unwrapped(FailingField) \notin EnumNodes
    /\ Assembled =>
          \A n \in EnumNodes :
              resolveBaseType(n, mergedScalars, types) = Ok(EnumFieldType(n))

\* a batch that declares an enum and prints one field with its name and
\* a field of another enum as String
C19_Witness ==
    /\ mode = "batch"
    /\ \E k \in Emitted :
          /\ Unwrapped(FieldAt(k).schema) \in EnumNodes \ Seeded
          /\ EntriesOf(Unwrapped(FieldAt(k).schema)) # {}
    /\ \E k \in Emitted :
          /\ Unwrapped(FieldAt(k).schema) \in EnumNodes \ DOMAIN types
          /\ LineAt(k) = "  " \o FieldAt(k).key \o ": String!"

(***************************************************************************)
(* C20: a field whose type is a literal that is not a key of the registry  *)
(* is printed by the type of the literal's value: String for a string, Int *)
(* for an integer number, Float for another number, Boolean for a boolean. *)
(***************************************************************************)
LiteralNodes == { n \in 1..NumBase : kindOf(n) = "ZodLiteral" }

DocumentedLiteral(n) ==
    CASE BaseNodes[n].valueType = "string" -> "String"
      [] BaseNodes[n].valueType = "number" /\ BaseNodes[n].valueIsInteger -> "Int"
      [] BaseNodes[n].valueType = "number" /\ ~BaseNodes[n].valueIsInteger -> "Float"
      [] BaseNodes[n].valueType = "boolean" -> "Boolean"

C20_LiteralField ==
    /\ \A k \in Emitted :
          LET n == FieldAt(k).schema
          IN  Unwrapped(n) \in LiteralNodes \ DOMAIN types =>
                  LineAt(k) = "  " \o FieldAt(k).key \o ": "
                              \o DocumentedLiteral(Unwrapped(n)) \o Marker(n)
    /\ FailedAtField => Unwrapped(FailingField) \notin LiteralNodes
    /\ Assembled =>
          \A n \in LiteralNodes \ DOMAIN types :
              resolveBaseType(n, mergedScalars, types) = Ok(DocumentedLiteral(n))

\* a declaration with a field printed for each of the four cases
C20_Witness ==
    \A t \in {"String", "Int", "Float", "Boolean"} :
        \E k \in Emitted :
            /\ FieldAt(k).schema \in LiteralNodes \ DOMAIN types
            /\ DocumentedLiteral(FieldAt(k).schema) = t

(***************************************************************************)
(* C21 (as stated): the declaration of a schema that is not an object, an  *)
(* enum or a union fails, and the error names the three kinds a top-level  *)
(* schema may have: object, enum and union.                                *)
(***************************************************************************)
Declarable == {"ZodObject", "ZodEnum", "ZodUnion"}

\* zodSchemaToGql threw on the kind of schemas[i]
DeclarationFailed ==
    /\ pc = "failed"
    /\ i <= Len(schemas)
    /\ error = TopLevelError(schemas[i].schema)

Names(message, kind) ==
    Contains(message, kind) \/ Contains(message, "Zod" \o kind)

C21_TopLevelKinds ==
    /\ pc \in {"fields", "return"} => kindOf(schemas[i].schema) \in Declarable
    /\ DeclarationFailed /\ kindOf(schemas[i].schema) \notin Declarable =>
          /\ Names(error, "Object") \/ Names(error, "object")
          /\ Names(error, "Enum") \/ Names(error, "enum")
          /\ Names(error, "Union") \/ Names(error, "union")

\* what the code does: the declaration fails, and the error names ZodObject,
\* ZodEnum and the class of the schema it got
C21_TopLevelFails ==
    /\ pc \in {"fields", "return"} => kindOf(schemas[i].schema) \in {"ZodObject", "ZodEnum"}
    /\ DeclarationFailed =>
          /\ Names(error, "Object") /\ Names(error, "Enum")
          /\ Contains(error, "got " \o kindOf(schemas[i].schema))
    /\ Assembled =>
          \A n \in FieldNodes :
              kindOf(n) \notin {"ZodObject", "ZodEnum"} =>
                  zodSchemaToGql("Name", n, mergedScalars, types) = Throw(TopLevelError(n))

(***************************************************************************)
(* C22: a call returns the whole document, one declaration for each        *)
(* schema, or fails and returns nothing: once an error is thrown the call  *)
(* takes no further step, whatever declarations were produced before it.   *)
(***************************************************************************)
C22_AllOrNothing ==
    /\ pc # "done" => result = ""
    /\ pc = "failed" => error # "" /\ ~ENABLED Next
    /\ pc = "done" =>
          /\ error = ""
          /\ Len(blocks) = Len(schemas)
          /\ result = IF mode = "batch" THEN join(blocks, "\n\n") ELSE blocks[1]

\* a batch that failed after it had produced a declaration
C22_Witness ==
    pc = "failed" /\ mode = "batch" /\ Len(blocks) >= 1

(***************************************************************************)
(* C23: the single-schema call works on the caller's options.types as it   *)
(* is: nothing is registered, the schema itself included, no validation    *)
(* is run whatever options.strict says, and a field whose object is not in *)
(* options.types is printed with the JSON fallback.                        *)
(***************************************************************************)
C23_SingleUsesCallerRegistry ==
    mode = "single" =>
        /\ pc \notin {"register", "validate"}
        /\ pc # "call" => types = options.types
        /\ pc = "failed" => ~Contains(error, "Strict mode")
        /\ \A k \in Emitted :
              LET n == FieldAt(k).schema
              IN  kindOf(Unwrapped(n)) = "ZodObject" /\ Unwrapped(n) \notin Seeded =>
                      LineAt(k) = "  " \o FieldAt(k).key \o ": "
                                  \o orElse(mergedScalars, "json", "JSON") \o Marker(n)

\* a strict single call that printed a field referring to the schema itself
C23_Witness ==
    /\ mode = "single" /\ options.strict
    /\ \E k \in Emitted :
          /\ Unwrapped(FieldAt(k).schema) = schemas[1].schema
          /\ Unwrapped(FieldAt(k).schema) \notin Seeded

(***************************************************************************)
(* C26: under any chain of wrappers around a node N that is not a wrapper, *)
(* a field is printed with the base type of N, followed by `!` exactly     *)
(* when no layer of the chain is Optional or Nullable.                     *)
(***************************************************************************)
RECURSIVE Core(_)
\* the node under all the wrappers of n
Core(n) == IF kindOf(n) \in Wrappers THEN Core(innerOf(n)) ELSE n

RECURSIVE AnyNullable(_)
\* some layer of the chain is Optional or Nullable
AnyNullable(n) ==
    kindOf(n) \in Wrappers /\ (IsNullable(n) \/ AnyNullable(innerOf(n)))

RECURSIVE NoLayerRegistered(_)
\* no wrapper of the chain is itself a key of the registry
NoLayerRegistered(n) ==
    kindOf(n) \in Wrappers => n \notin DOMAIN types /\ NoLayerRegistered(innerOf(n))

FallbackName == orElse(mergedScalars, "json", "JSON")

C27_StrictNoFallback ==
    mode = "batch" /\ options.strict =>
        /\ \A k \in Emitted : ~Contains(LineAt(k), FallbackName)
        /\ pc = "done" => ~Contains(result, FallbackName)
        /\ Assembled =>
              \A n \in FieldNodes :
                  validateFieldSchema(n, types, "T", "f") = "" =>
                      ~Contains(zodTypeToGql(n, mergedScalars, types).val, FallbackName)

\* a strict batch that returned a document with fields referring to
\* registered objects, directly, under a wrapper and in a list
C27_Witness ==
    /\ pc = "done" /\ mode = "batch" /\ options.strict
    /\ \E e \in 1..Len(schemas) : schemas[e].schema = Owner

(***************************************************************************)
(* C28: no step of a call changes the options the caller passed, its       *)
(* options.types included: the names of the batch are registered in the    *)
(* call's own map, which is the caller's entries overwritten by the        *)
(* batch's, so that what a call works with depends on its own arguments    *)
(* only.                                                                   *)
(***************************************************************************)
C28_CallerRegistryKept ==
    /\ [][options' = options]_vars
    /\ [](RegistryBuilt => types = workingTypes(schemas, options))

\* a finished batch whose own registry differs from the caller's, which
\* is not empty
C28_Witness ==
    /\ pc \in {"done", "failed"} /\ mode = "batch"
    /\ Seeded # {}
    /\ types # options.types

(***************************************************************************)
(* C29: every call ends, by returning or by throwing.  Each step takes the *)
(* call closer to its end by a measure that the numbers of schemas and of  *)
(* fields bound, and within a step the resolver and the validator are      *)
(* entered once per list layer of the field.                               *)
(***************************************************************************)
Terminated == pc \in {"done", "failed"}

\* the steps of one zodSchemaToGql call: enter, one per field, close, return
DeclarationSteps(e) == Len(shapeOf(schemas[e].schema)) + 3

RECURSIVE StepsFrom(_)
\* the steps of the declarations e, e + 1, ... and of the final join
StepsFrom(e) ==
    IF e > Len(schemas) THEN 1 ELSE DeclarationSteps(e) + StepsFrom(e + 1)

Measure ==
    CASE pc = "call" -> Len(schemas) + 4 + StepsFrom(1)
      [] pc = "register" -> (Len(schemas) + 1 - i) + 2 + StepsFrom(1)
      [] pc = "validate" -> 1 + StepsFrom(1)
      [] pc = "emit" -> StepsFrom(i)
      [] pc = "fields" ->
            (Len(shapeOf(schemas[i].schema)) + 1 - j) + 2 + StepsFrom(i + 1)
      [] pc = "return" -> 1 + StepsFrom(i + 1)
      [] OTHER -> 0

RECURSIVE Layers(_)
\* the list layers between a field and the node that is not a list
Layers(n) ==
    IF kindOf(Unwrapped(n)) = "ZodArray" THEN 1 + Layers(innerOf(Unwrapped(n))) ELSE 0

RECURSIVE resolverCalls(_, _)
\* the calls of zodTypeToGql made to resolve a field
resolverCalls(n, tys) ==
    LET inner == unwrapSchema(n).schema
    IN  IF kindOf(inner) = "ZodArray" /\ inner \notin DOMAIN tys
        THEN 1 + resolverCalls(innerOf(inner), tys)
        ELSE 1

RECURSIVE validatorCalls(_)
\* the calls of validateFieldSchema made to validate a field
validatorCalls(n) ==
    LET inner == unwrapSchema(n).schema
    IN  IF kindOf(inner) = "ZodArray" THEN 1 + validatorCalls(innerOf(inner)) ELSE 1

\* the calls whose records list their schemas in the order of the catalogue
\* (the steps of a call do not depend on the order of its entries' names)
FairInit == Init /\ InCatalogueOrder

\* a call is one synchronous run: a step that can be taken is taken
FairSpec == FairInit /\ [][Next]_vars /\ WF_vars(Next)

C29_Terminates ==
    /\ <>Terminated
    /\ [][Measure' < Measure]_vars
    /\ [](Measure >= 0 /\ (Measure = 0 <=> Terminated))
    /\ [](Assembled =>
            \A n \in FieldNodes :
                /\ resolverCalls(n, types) <= Layers(n) + 1
                /\ validatorCalls(n) = Layers(n) + 1)

\* a strict batch that went through the registration, the validation and
\* the declaration of a list of lists, and returned
C29_Witness ==
    /\ pc = "done" /\ mode = "batch" /\ options.strict
    /\ \E e \in 1..Len(schemas) : schemas[e].schema = Article

(***************************************************************************)
(* C30: an object one of whose fields leads back to the object itself is   *)
(* compiled like any other.  Neither the resolver nor the validator enters *)
(* the shape of an object a field refers to: the resolver prints the       *)
(* object's registered name, or the JSON fallback when it has none, and    *)
(* the validator accepts the field as soon as the object is registered,    *)
(* which it is in every batch that declares it.                            *)
(***************************************************************************)
\* the fields of the object n that lead back to n
SelfFields(n) == { f \in 1..Len(shapeOf(n)) : Target(shapeOf(n)[f].schema) = n }

SelfReferencing(n) == kindOf(n) = "ZodObject" /\ SelfFields(n) # {}

RECURSIVE SelfType(_, _)
\* the type of a field that leads to an object printed as `name`
SelfType(n, name) ==
    IF kindOf(Unwrapped(n)) = "ZodArray"
    THEN "[" \o SelfType(innerOf(Unwrapped(n)), name) \o "]" \o Marker(n)
    ELSE name \o Marker(n)

\* the statement of the claim: such a call never returns
C30_SelfReferenceDiverges ==
    (\E e \in 1..Len(schemas) : SelfReferencing(schemas[e].schema)) => pc # "done"

C30_SelfReferenceCompiles ==
    /\ \A k \in Emitted :
          LET n == FieldAt(k).schema
              self == schemas[i].schema
          IN  Target(n) = self =>
                  LineAt(k) = "  " \o FieldAt(k).key \o ": "
                      \o SelfType(n, orElse(types, self, FallbackName))
    /\ \A e \in 1..Len(schemas) :
          LET self == schemas[e].schema
          IN  \A f \in SelfFields(self) :
                  /\ RegistryBuilt =>
                        validateFieldSchema(shapeOf(self)[f].schema, types,
                                            schemas[e].name, shapeOf(self)[f].key) = ""
                  /\ error # StrictError(shapeOf(self)[f].key, schemas[e].name)
                  /\ resolverCalls(shapeOf(self)[f].schema, types)
                        <= Layers(shapeOf(self)[f].schema) + 1
                  /\ validatorCalls(shapeOf(self)[f].schema)
                        = Layers(shapeOf(self)[f].schema) + 1

\* a strict batch that declared an object with a field of its own type and
\* a list of its own type, and returned
C30_Witness ==
    /\ pc = "done" /\ mode = "batch" /\ options.strict
    /\ \E e \in 1..Len(schemas) :
          /\ schemas[e].schema = Inventory
          /\ Cardinality(SelfFields(Inventory)) = 2

(***************************************************************************)
(* retry(fn, options) of packages/utils/src/promise.ts.  The k-th call of  *)
(* fn resolves with the value k, rejects with an Error whose message is k, *)
(* or rejects with the string k; shouldRetry, when given, is a verdict on  *)
(* each of these errors.                                                   *)
(***************************************************************************)
DefaultAttempts == 3
DefaultDelayMs == 1000
DefaultBackoff == 2
DefaultMaxDelayMs == 30000

\* the variables of the compile call
compiling == <<mode, schemas, options, pc, types, i, j, lines, blocks, result, error>>

\* no compile call is part of a retry() or of a listener call
NoCompile ==
    /\ mode = "none"
    /\ schemas = <<>>
    /\ options = [scalars |-> EmptyMap, types |-> EmptyMap, strict |-> FALSE,
                  preserveEnumCase |-> FALSE]
    /\ pc = "none"
    /\ types = EmptyMap
    /\ i = 1
    /\ j = 1
    /\ lines = <<>>
    /\ blocks = <<>>
    /\ result = ""
    /\ error = ""

\* what fn does on each of its calls
Fns == [1..MaxAttempts -> {"value", "Error", "string"}]

\* the RetryOptions objects: each key given or left out
RetryOptionsSet ==
    { merge(merge(a, d), r) :
        a \in {EmptyMap} \cup { [attempts |-> n] : n \in 0..MaxAttempts },
        d \in {EmptyMap, [delayMs |-> 10000]},
        r \in {EmptyMap} \cup { [shouldRetry |-> v] : v \in [1..MaxAttempts -> BOOLEAN] } }

\* const { attempts = 3, delayMs = 1000, backoff = 2, maxDelayMs = 30000,
\*         shouldRetry = () => true } = options
attemptsOf(opts) == orElse(opts, "attempts", DefaultAttempts)
delayMsOf(opts) == orElse(opts, "delayMs", DefaultDelayMs)
backoffOf(opts) == orElse(opts, "backoff", DefaultBackoff)
maxDelayMsOf(opts) == orElse(opts, "maxDelayMs", DefaultMaxDelayMs)
shouldRetry(opts, err) ==
    IF "shouldRetry" \in DOMAIN opts THEN opts.shouldRetry[err.message] ELSE TRUE

\* `let lastError: Error` before its first assignment
Undefined == [class |-> "undefined", message |-> 0]

\* what the k-th call of fn rejects with
thrownBy(fn, k) == [class |-> fn[k], message |-> k]

\* e instanceof Error ? e : new Error(String(e))
toError(e) == IF e.class = "Error" THEN e ELSE [class |-> "Error", message |-> e.message]

\* the verdict of shouldRetry left out of the test
giveUp_lastOnly(attempt, attempts, verdict) == attempt = attempts

\* attempt === attempts || !shouldRetry(lastError)
giveUp(attempt, attempts, verdict) == attempt = attempts \/ ~verdict

\* Math.min
min(a, b) == IF a <= b THEN a ELSE b

RetryInit ==
    /\ NoCompile
    /\ listening = NoListener
    /\ \E opts \in RetryOptionsSet, fn \in Fns :
          retrying = [pc |-> "call", options |-> opts, fn |-> fn, attempt |-> 0,
                      currentDelay |-> 0, lastError |-> Undefined, calls |-> 0,
                      pending |-> 0, delays |-> <<>>, value |-> 0, thrown |-> Undefined]

\* let currentDelay = delayMs; let attempt = 1
RetryCall ==
    /\ retrying.pc = "call"
    /\ retrying' = [retrying EXCEPT !.pc = "loop", !.attempt = 1,
                                    !.currentDelay = delayMsOf(retrying.options)]
    /\ UNCHANGED <<compiling, listening>>

\* attempt <= attempts: fn() is called and awaited
Attempt ==
    /\ retrying.pc = "loop"
    /\ retrying.attempt <= attemptsOf(retrying.options)
    /\ retrying' = [retrying EXCEPT !.pc = "await", !.calls = @ + 1, !.pending = @ + 1]
    /\ UNCHANGED <<compiling, listening>>

\* the loop ends without a return or a throw: throw lastError!
Exhausted ==
    /\ retrying.pc = "loop"
    /\ retrying.attempt > attemptsOf(retrying.options)
    /\ retrying' = [retrying EXCEPT !.pc = "rejected", !.thrown = retrying.lastError]
    /\ UNCHANGED <<compiling, listening>>

\* return await fn(), fn's promise being fulfilled
Fulfilled ==
    /\ retrying.pc = "await"
    /\ retrying.fn[retrying.calls] = "value"
    /\ retrying' = [retrying EXCEPT !.pc = "resolved", !.pending = @ - 1,
                                    !.value = retrying.calls]
    /\ UNCHANGED <<compiling, listening>>

\* the catch block, fn's promise being rejected
Caught ==
    /\ retrying.pc = "await"
    /\ retrying.fn[retrying.calls] # "value"
    /\ LET lastError == toError(thrownBy(retrying.fn, retrying.calls))
       IN  IF giveUp(retrying.attempt, attemptsOf(retrying.options),
                     shouldRetry(retrying.options, lastError))
           THEN retrying' = [retrying EXCEPT !.pc = "rejected", !.pending = @ - 1,
                                             !.lastError = lastError,
                                             !.thrown = lastError]
           ELSE retrying' = [retrying EXCEPT !.pc = "delay", !.pending = @ - 1,
                                             !.lastError = lastError]
    /\ UNCHANGED <<compiling, listening>>

\* await delay(currentDelay) is over; the delay grows and the loop goes on
Delayed ==
    /\ retrying.pc = "delay"
    /\ retrying' = [retrying EXCEPT
                        !.pc = "loop",
                        !.delays = Append(@, retrying.currentDelay),
                        !.currentDelay = min(@ * backoffOf(retrying.options),
                                             maxDelayMsOf(retrying.options)),
                        !.attempt = @ + 1]
    /\ UNCHANGED <<compiling, listening>>

RetryNext ==
    \/ RetryCall
    \/ Attempt
    \/ Exhausted
    \/ Fulfilled
    \/ Caught
    \/ Delayed

RetrySpec == RetryInit /\ [][RetryNext]_vars

(***************************************************************************)
(* C24: fn is called one call at a time; when retry settles, the number of *)
(* calls made is the least of the index of the first call that succeeds,   *)
(* the index of the first failed call that shouldRetry refuses, and        *)
(* `attempts`; it resolves with the value of the first success exactly     *)
(* when that index is the least, and otherwise rejects with the error of   *)
(* the last call made (as an Error); no call of fn is made beyond that     *)
(* number in any state.                                                    *)
(***************************************************************************)
Least(S) == CHOOSE x \in S : \A y \in S : x <= y

FirstSuccess == Least({ k \in 1..MaxAttempts : retrying.fn[k] = "value" }
                      \cup {MaxAttempts + 1})

FirstRefusal ==
    Least({ k \in 1..MaxAttempts :
              /\ retrying.fn[k] # "value"
              /\ ~shouldRetry(retrying.options, toError(thrownBy(retrying.fn, k))) }
          \cup {MaxAttempts + 1})

ExpectedCalls == Least({FirstSuccess, FirstRefusal, attemptsOf(retrying.options)})

RetrySettled == retrying.pc \in {"resolved", "rejected"}

C24_RetryCalls ==
    /\ retrying.pending <= 1
    /\ retrying.calls <= ExpectedCalls
    /\ RetrySettled =>
          /\ retrying.pending = 0
          /\ retrying.calls = ExpectedCalls
          /\ retrying.pc = "resolved" <=> FirstSuccess = ExpectedCalls
          /\ retrying.pc = "resolved" => retrying.value = FirstSuccess
          /\ retrying.pc = "rejected" /\ retrying.calls >= 1 =>
                retrying.thrown = [class |-> "Error", message |-> retrying.calls]
          /\ retrying.pc = "rejected" /\ retrying.calls = 0 => retrying.thrown = Undefined
          /\ Len(retrying.delays) = retrying.calls - (IF retrying.calls = 0 THEN 0 ELSE 1)

\* a retry of three attempts that gave up after the second, which
\* shouldRetry refused, having waited once
C24_Witness ==
    /\ retrying.pc = "rejected"
    /\ attemptsOf(retrying.options) = 3
    /\ retrying.calls = 2
    /\ "shouldRetry" \in DOMAIN retrying.options
    /\ Len(retrying.delays) = 1

(***************************************************************************)
(* createListener(handlers, opts) of the messaging package: the listener   *)
(* given to chrome.runtime.onMessage.addListener by onMessage.  One        *)
(* handler is registered, under the action "known"; it returns a value,    *)
(* throws, or returns a promise that is later fulfilled or rejected.  The  *)
(* hooks of opts are each left out, or return, or throw.                   *)
(***************************************************************************)
\* message?.action: none, one without a handler, the one with a handler
Actions == {"", "unknown", "known"}

\* what handler(message, sender) does
HandlerKinds == {"returns", "throws", "resolves", "rejects"}

\* what a failing handler throws or rejects with
HandlerErrors ==
    { [class |-> "Error", message |-> "Database connection failed"],
      [class |-> "string", message |-> "string error"] }

\* the OnMessageConfig objects: each hook given or left out
OnMessageConfigs ==
    { merge(merge(q, s), e) :
        q \in {EmptyMap, [onRequest |-> "returns"], [onRequest |-> "throws"]},
        s \in {EmptyMap, [onResponse |-> "returns"], [onResponse |-> "throws"]},
        e \in {EmptyMap, [onError |-> "string"], [onError |-> "void"],
               [onError |-> "throws"]} }

HookError(hook) == [class |-> "Error", message |-> hook \o " failed"]

\* the string the onError hook of the model returns
CustomMessage == "Custom error message"

\* handlers[action]
hasHandler(action) == action = "known"

\* { success: true, data }
Success(data) == [success |-> TRUE, data |-> data]

\* { success: false, error: errorMessage }
Failure(message) == [success |-> FALSE, error |-> message]

\* typeof customMessage === 'string' ? customMessage
\*   : err instanceof Error ? err.message : String(err)
errorMessage(opts, err) ==
    IF orElse(opts, "onError", "absent") = "string" THEN CustomMessage
    ELSE IF err.class = "Error" THEN err.message
    ELSE err.message

NoError == [class |-> "none", message |-> ""]

ListenerInit ==
    /\ NoCompile
    /\ retrying = NoRetry
    /\ \E action \in Actions, kind \in HandlerKinds, err \in HandlerErrors,
          opts \in OnMessageConfigs :
          listening = [pc |-> "message", action |-> action, handler |-> kind,
                       failure |-> err, opts |-> opts, returned |-> "nothing",
                       err |-> NoError, hooks |-> <<>>, responses |-> <<>>]

\* the listener itself, from its entry to its return or to the throw that
\* leaves it
Listener ==
    /\ listening.pc = "message"
    /\ LET l == listening
           asked == IF "onRequest" \in DOMAIN l.opts THEN <<"onRequest">> ELSE <<>>
       IN  IF l.action = "" \/ ~hasHandler(l.action)
           THEN listening' = [l EXCEPT !.pc = "idle", !.returned = "false"]
           ELSE IF orElse(l.opts, "onRequest", "absent") = "throws"
           THEN listening' = [l EXCEPT !.pc = "idle", !.returned = "threw",
                                       !.hooks = asked, !.err = HookError("onRequest")]
           ELSE CASE l.handler = "throws" ->
                       listening' = [l EXCEPT !.pc = "idle", !.returned = "threw",
                                              !.hooks = asked, !.err = l.failure]
                  [] l.handler = "returns" ->
                       listening' = [l EXCEPT !.pc = "then", !.returned = "true",
                                              !.hooks = asked]
                  [] OTHER ->
                       listening' = [l EXCEPT !.pc = "pending", !.returned = "true",
                                              !.hooks = asked]
    /\ UNCHANGED <<compiling, retrying>>

\* the promise the handler returned is settled
Settle ==
    /\ listening.pc = "pending"
    /\ IF listening.handler = "resolves"
       THEN listening' = [listening EXCEPT !.pc = "then"]
       ELSE listening' = [listening EXCEPT !.pc = "catch", !.err = listening.failure]
    /\ UNCHANGED <<compiling, retrying>>

\* .then((data) => { opts?.onResponse?.(action, data); sendResponse(...) })
OnFulfilled ==
    /\ listening.pc = "then"
    /\ LET l == listening
       IN  IF "onResponse" \in DOMAIN l.opts
           THEN IF l.opts.onResponse = "throws"
                THEN listening' = [l EXCEPT !.pc = "catch",
                                            !.hooks = Append(@, "onResponse"),
                                            !.err = HookError("onResponse")]
                ELSE listening' = [l EXCEPT !.pc = "idle",
                                            !.hooks = Append(@, "onResponse"),
                                            !.responses = Append(@, Success("data"))]
           ELSE listening' = [l EXCEPT !.pc = "idle",
                                       !.responses = Append(@, Success("data"))]
    /\ UNCHANGED <<compiling, retrying>>

\* .catch((err) => { ...; sendResponse({ success: false, error }) })
OnRejected ==
    /\ listening.pc = "catch"
    /\ LET l == listening
       IN  IF "onError" \in DOMAIN l.opts
           THEN IF l.opts.onError = "throws"
                THEN listening' = [l EXCEPT !.pc = "idle",
                                            !.hooks = Append(@, "onError"),
                                            !.err = HookError("onError")]
                ELSE listening' = [l EXCEPT !.pc = "idle",
                                            !.hooks = Append(@, "onError"),
                                            !.responses =
                                                Append(@, Failure(errorMessage(l.opts, l.err)))]
           ELSE listening' = [l EXCEPT !.pc = "idle",
                                       !.responses =
                                           Append(@, Failure(errorMessage(l.opts, l.err)))]
    /\ UNCHANGED <<compiling, retrying>>

ListenerNext ==
    \/ Listener
    \/ Settle
    \/ OnFulfilled
    \/ OnRejected

ListenerSpec == ListenerInit /\ [][ListenerNext]_vars

(***************************************************************************)
(* C25: a message whose action has a handler gets exactly one response:    *)
(* once nothing of the call is left to run, the listener has returned      *)
(* true and sendResponse has been called once, with {success: true, data}  *)
(* when the handler returned or resolved and with {success: false, error}  *)
(* when it threw or rejected, the error being the string onError returned  *)
(* if it returned one and the error's message otherwise; and at no time    *)
(* have two responses been sent.                                           *)
(***************************************************************************)
Matching == hasHandler(listening.action)

Quiescent == listening.pc = "idle"

ExpectedResponse ==
    IF listening.handler \in {"returns", "resolves"}
    THEN Success("data")
    ELSE Failure(IF orElse(listening.opts, "onError", "absent") = "string"
                 THEN CustomMessage
                 ELSE listening.failure.message)

C25_OneResponse ==
    Matching =>
        /\ Len(listening.responses) <= 1
        /\ listening.pc \notin {"message", "idle"} => listening.returned = "true"
        /\ Quiescent =>
              /\ listening.returned = "true"
              /\ listening.responses = <<ExpectedResponse>>

\* no hook throws and the handler does not throw before it returns
WellBehaved ==
    /\ listening.handler # "throws"
    /\ \A hook \in DOMAIN listening.opts : listening.opts[hook] # "throws"

\* what holds of the code: the claim, for handlers that return, resolve or
\* reject and hooks that return; and a message without a handler gets the
\* answer false and no response
C25_OneResponseUnlessThrown ==
    /\ Matching /\ WellBehaved => C25_OneResponse
    /\ Len(listening.responses) <= 1
    /\ ~Matching /\ Quiescent =>
          listening.returned = "false" /\ listening.responses = <<>>
          /\ listening.hooks = <<>>
    /\ Matching /\ Quiescent /\ listening.handler = "throws" =>
          listening.returned = "threw" /\ listening.responses = <<>>

====
